---- MODULE Spec2Model ----
(***************************************************************************)
(* Conversation store and answer routing of search_service.                *)
(*                                                                         *)
(* The Redis store is modelled by three variables: the history lists       *)
(* (chat:<type>:<id>), the meta records (chatmeta:<type>:<id>) and the     *)
(* sorted set chat:order.  Handlers of src/src/app/api are actions.  Spec  *)
(* runs every handler to completion; SpecRace interleaves the Redis        *)
(* commands of turn submissions.                                           *)
(*                                                                         *)
(* The handlers read request.chat_id / request.document_ids; the request   *)
(* is modelled with the fields the handler reads.                          *)
(***************************************************************************)
EXTENDS Integers, Sequences, FiniteSets, TLC

\* ------------------------------------------------------------------ bounds
MaxClock == 1
MaxHist == 2
MaxTurns == 2
MaxDocs == 2

\* ---------------------------------------------------------- value domains
Kinds == {"question", "insight", "documentqna"}
Ids == {"c1", "c2"}
Convs == Kinds \X Ids

\* redis_service.py:13
DEFAULT_CHAT_TYPES == <<"question", "insight">>


\* documents of the Mongo collection "upload": id -> file_name
DocIds == {"d1", "d2"}
FileName(d) == IF d = "d1" THEN "a.pdf" ELSE "b.pdf"
\* document_ids of a request
DocLists == {<<>>, <<"d1">>}
\* id lists handed to add_doc_ids_to_chat_meta
AddLists == {<<>>, <<"d1">>, <<"d2">>, <<"d1", "d1">>}

CANNOT_ANSWER == "I cannot answer based on the provided documents."
NO_INDEXED == "I cannot answer based on stored knowledge: no relevant indexed documents were found. You may upload a document related to your question."
Questions == {"q1"}
Answers == {"A1", CANNOT_ANSWER}
\* what generate_chat_title can return: a cleaned title, the empty string
\* (content of quotes/whitespace only), or "Conversation" on any exception
GeneratedTitles == {"T1", ""}

\* absent dict keys / Python None
NoTs == -1
NoScore == -1
None == "<None>"

IsFallback(a) == a = "" \/ a = CANNOT_ANSWER \/ a = NO_INDEXED

\* ------------------------------------------------------------ sequences
RECURSIVE SeqToSet(_)
SeqToSet(s) == IF s = <<>> THEN {} ELSE {Head(s)} \cup SeqToSet(Tail(s))

RECURSIVE Dedup(_)
Dedup(s) ==
    IF s = <<>> THEN <<>>
    ELSE LET r == Dedup(SubSeq(s, 1, Len(s) - 1))
             x == s[Len(s)]
         IN IF x \in SeqToSet(r) THEN r ELSE Append(r, x)

\* ------------------------------------------------------------- key codec
redis_key(chat_id, chat_type) == <<chat_type, chat_id>>
chat_meta_key(chat_id, chat_type) == <<chat_type, chat_id>>
chat_order_member(chat_type, chat_id) == <<chat_type, chat_id>>

\* ------------------------------------------------------------------ meta
\* a meta record; exists = FALSE is the missing key, and json.loads of a
\* missing key's {} has every field absent
AbsentMeta ==
    [exists |-> FALSE, created |-> NoTs, last_activity |-> NoTs,
     title |-> None, user_id |-> None, document_ids |-> <<>>]

Truthy(s) == s # None /\ s # ""

MutUpdateCreatedAlways(m, title, now) ==
    [exists |-> TRUE,
     created |-> now,
     last_activity |-> now,
     title |-> IF Truthy(title) THEN title
               ELSE IF m.title = None THEN "Conversation" ELSE m.title,
     user_id |-> IF m.user_id = None THEN "admin" ELSE m.user_id,
     document_ids |-> m.document_ids]

MutUpdateTitleAlways(m, title, now) ==
    [exists |-> TRUE,
     created |-> IF m.created = NoTs THEN now ELSE m.created,
     last_activity |-> now,
     title |-> IF title = None THEN "Conversation" ELSE title,
     user_id |-> IF m.user_id = None THEN "admin" ELSE m.user_id,
     document_ids |-> m.document_ids]

MutUpdateDropsDocIds(m, title, now) ==
    [exists |-> TRUE,
     created |-> IF m.created = NoTs THEN now ELSE m.created,
     last_activity |-> now,
     title |-> IF Truthy(title) THEN title
               ELSE IF m.title = None THEN "Conversation" ELSE m.title,
     user_id |-> IF m.user_id = None THEN "admin" ELSE m.user_id,
     document_ids |-> <<>>]

\* update_chat_meta_on_message: the record written back for stored record m
UpdateChatMeta(m, title, now) ==
    [exists |-> TRUE,
     created |-> IF m.created = NoTs THEN now ELSE m.created,
     last_activity |-> now,
     title |-> IF Truthy(title) THEN title
               ELSE IF m.title = None THEN "Conversation" ELSE m.title,
     user_id |-> IF m.user_id = None THEN "admin" ELSE m.user_id,
     document_ids |-> m.document_ids]

MutAddDocIdsNoFilter(m, doc_ids) ==
    IF doc_ids = <<>> THEN m
    ELSE [m EXCEPT !.exists = TRUE, !.document_ids = @ \o doc_ids]

\* add_doc_ids_to_chat_meta: the record stored afterwards
AddDocIds(m, doc_ids) ==
    IF doc_ids = <<>> THEN m
    ELSE LET existing_ids == SeqToSet(m.document_ids)
             new_ids == SelectSeq(doc_ids, LAMBDA d : d \notin existing_ids)
         IN IF new_ids = <<>> THEN m
            ELSE [m EXCEPT !.exists = TRUE, !.document_ids = @ \o new_ids]

\* ---------------------------------------------------------------- titles
LongQuestion == "Q61"
StrLen(s) == IF s = LongQuestion THEN 61 ELSE IF s = "" THEN 0 ELSE 2
Truncated(s) == "Q61[:60]..."
\* (q[:60] + "...") if q and len(q) > 60 else (q or "Conversation")
DeriveTitle(q) ==
    IF q # "" /\ StrLen(q) > 60 THEN Truncated(q)
    ELSE IF q = "" THEN "Conversation" ELSE q

\* ----------------------------------------------------------------- state
VARIABLES
    hist,        \* chat:<type>:<id>      -> list of turns (missing key = <<>>)
    meta,        \* chatmeta:<type>:<id>  -> meta record
    order,       \* chat:order            member -> score (NoScore = no member)
    clock,       \* wall clock in seconds (iso_utc_now / time.time)
    tz,          \* seconds the server's local time lies behind UTC
    titleCalls,  \* calls of generate_chat_title per conversation since it was created
    appended,    \* log of the turns appended to a conversation since it was created
    resp,        \* what the last completed handler returned, and what it saw
    procs        \* in-flight turn submissions (SpecRace)

vars == <<hist, meta, order, clock, tz, titleCalls, appended, resp, procs>>

Procs == {"p1", "p2"}
TzOffsets == {0, 1}

Turn(q, a, ts, tags, ids) ==
    [question |-> q, answer |-> a, ts |-> ts, tags |-> tags, document_ids |-> ids]

NoResp ==
    [op |-> "none", conv |-> <<"", "">>, status |-> "", title |-> None,
     answer |-> None, tags |-> <<>>, turns |-> <<>>, items |-> <<>>,
     path |-> "", vecCalls |-> 0, titleGen |-> 0, ids |-> <<>>,
     deleted_lists |-> 0, deleted_meta |-> 0, allowed |-> {}, pruned |-> {},
     bound |-> <<>>, fresh |-> FALSE, prevTitle |-> None, prevLen |-> 0,
     repeat |-> FALSE, detail |-> "", match |-> "", full |-> FALSE, question |-> None,
     req |-> <<>>, context |-> <<>>, prompt |-> <<>>, limit |-> <<0, 0>>]

\* the response of an operation on conversation c, with what the store held
\* for c when the operation started
RespFor(op, c) ==
    [NoResp EXCEPT !.op = op, !.conv = c,
                   !.bound = meta[c].document_ids,
                   !.fresh = (Len(hist[c]) = 0 /\ ~meta[c].exists /\ order[c] = NoScore),
                   !.prevTitle = meta[c].title,
                   !.prevLen = Len(hist[c])]

LogEntry(t) == [question |-> t.question, answer |-> t.answer, ts |-> t.ts]

IdleProc ==
    [pc |-> "idle", conv |-> <<"", "">>, question |-> "", answer |-> None,
     is_first |-> FALSE, title |-> None, m |-> AbsentMeta,
     seen |-> {}, items |-> <<>>]

RECURSIVE TotalTurns(_, _)
TotalTurns(h, S) ==
    IF S = {} THEN 0
    ELSE LET c == CHOOSE x \in S : TRUE
         IN Len(h[c]) + TotalTurns(h, S \ {c})

\* a turn may still be appended to c within the bounds of the model
Room(c) == Len(hist[c]) < MaxHist /\ TotalTurns(hist, Convs) < MaxTurns

\* an empty store
InitStore ==
    /\ hist = [c \in Convs |-> <<>>]
    /\ meta = [c \in Convs |-> AbsentMeta]
    /\ order = [c \in Convs |-> NoScore]
    /\ clock = 0
    /\ titleCalls = [c \in Convs |-> 0]
    /\ appended = [c \in Convs |-> <<>>]
    /\ resp = NoResp
    /\ procs = [p \in Procs |-> IdleProc]

\* a server whose local time is UTC
Init == InitStore /\ tz = 0

\* ------------------------------------------------------- store primitives
MutOrphanWithoutHistory(h, mt, c) == Len(h[c]) = 0

\* is_orphan: neither the history key nor the meta key exists
is_orphan(h, mt, c) == Len(h[c]) = 0 /\ ~mt[c].exists

\* update_chat_order: zadd chat:order {member: time.time()}
update_chat_order(ord, c, now) == [ord EXCEPT ![c] = now]

\* remove_chat_order_member(chat_id, chat_type): zrem of one member, or of the
\* members of DEFAULT_CHAT_TYPES when chat_type is None
remove_chat_order_member(ord, chat_id, chat_type) ==
    [c \in Convs |->
        IF c[2] = chat_id
           /\ (IF chat_type = None
               THEN c[1] \in SeqToSet(DEFAULT_CHAT_TYPES)
               ELSE c[1] = chat_type)
        THEN NoScore ELSE ord[c]]

MutRPushFront(list, item) == <<item>> \o list

\* redis rpush
RPush(list, item) == Append(list, item)

\* get_last_answer: answer of lindex(key, -1), None for a missing key
get_last_answer(h, c) ==
    IF Len(h[c]) = 0 THEN None ELSE h[c][Len(h[c])].answer

\* datetime.strptime(ts, "%Y-%m-%dT%H:%M:%SZ").timestamp(): the parsed value is
\* naive, so timestamp() reads it as local time
StrpTimestamp(ts) == ts + tz

Tick ==
    /\ clock < MaxClock
    /\ clock' = clock + 1
    /\ UNCHANGED <<hist, meta, order, tz, titleCalls, appended, resp, procs>>

\* ------------------------------------------------------------ turn: /search
\* file names of the stored documents among doc_ids, in collection order,
\* collected without repetition (search_question, document flow)
DocTags(doc_ids) ==
    Dedup(SelectSeq(<<FileName("d1"), FileName("d2")>>,
                    LAMBDA n : \E d \in SeqToSet(doc_ids) \cap DocIds : FileName(d) = n))

MutResolveTitleRegenerate(h, mt, c, is_first, gen) == gen

\* the title of a turn: generated on the first turn, else meta's title, else
\* derived from the first stored question
ResolveTitle(h, mt, c, is_first, gen) ==
    IF is_first THEN gen
    ELSE IF mt[c].exists /\ Truthy(mt[c].title) THEN mt[c].title
    ELSE IF Len(h[c]) > 0 THEN DeriveTitle(h[c][1].question)
    ELSE "Conversation"

\* search_question from the history-length read to the response, once the
\* answer is known: llen, rpush, title, update_chat_meta_on_message,
\* update_chat_order
PersistSearchTurn(c, q, answer, tags, path, vec, req_ids, gen, match) ==
    LET is_first == Len(hist[c]) = 0
        item == Turn(q, answer, clock, <<>>, <<>>)
        h2 == [hist EXCEPT ![c] = RPush(@, item)]
        title == ResolveTitle(h2, meta, c, is_first, gen)
    IN /\ hist' = h2
       /\ appended' = [appended EXCEPT ![c] = Append(@, LogEntry(item))]
       /\ meta' = [meta EXCEPT ![c] = UpdateChatMeta(@, title, clock)]
       /\ order' = update_chat_order(order, c, clock)
       /\ titleCalls' = [titleCalls EXCEPT ![c] = IF is_first THEN @ + 1 ELSE @]
       /\ resp' = [RespFor("search", c) EXCEPT !.status = "ok", !.question = q,
                                 !.title = title, !.answer = answer, !.tags = tags,
                                 !.path = path, !.vecCalls = vec, !.ids = req_ids,
                                 !.titleGen = IF is_first THEN 1 ELSE 0,
                                 !.match = match]

\* a handler that raised: nothing is written
Failed(op, c, q, path, vec, req_ids) ==
    /\ resp' = [RespFor(op, c) EXCEPT !.status = "error", !.question = q,
                              !.path = path, !.vecCalls = vec, !.ids = req_ids]
    /\ UNCHANGED <<hist, meta, order, titleCalls, appended>>

\* what $vectorSearch with limit 1 finds: no record, or the nearest record
\* with a similarity below or above 0.75
Matches == {"none", "low", "high"}

\* search_question, vector flow: "if not results: raise HTTPException(404)"
NoMatches(c, q, req_ids) ==
    /\ resp' = [RespFor("search", c) EXCEPT !.status = "error", !.question = q,
                              !.detail = "No matches", !.match = "none",
                              !.path = "vector", !.vecCalls = 1, !.ids = req_ids]
    /\ UNCHANGED <<hist, meta, order, titleCalls, appended>>

MutRouteByMeta(c, req_ids) == req_ids # <<>> \/ meta[c].document_ids # <<>>

\* search_question: "if doc_ids:" on the ids of the request
UsesDocumentPath(c, req_ids) == req_ids # <<>>

\* search_question, document flow: chat_completion over the documents' text.
\* When the collection "upload" cannot be opened or read (connect_to_mongodb
\* returns None, or find raises inside "except Exception: pass") the flow goes
\* on with no snippets and no tags.
SearchDocument(c, q, req_ids) ==
    /\ c[1] \in {"question", "insight"} /\ Room(c)
    /\ UsesDocumentPath(c, req_ids)
    /\ \/ \E answer \in Answers, gen \in GeneratedTitles :
            PersistSearchTurn(c, q, answer, DocTags(req_ids), "document", 0, req_ids, gen, "docs")
       \/ \E answer \in Answers, gen \in GeneratedTitles :
            PersistSearchTurn(c, q, answer, <<>>, "document", 0, req_ids, gen, "unavailable")
       \/ Failed("search", c, q, "document", 0, req_ids)
    /\ UNCHANGED <<clock, tz, procs>>

\* search_question, vector flow: get_embedding, $vectorSearch, chat_completion
SearchVector(c, q, req_ids) ==
    /\ c[1] \in {"question", "insight"} /\ Room(c)
    /\ ~UsesDocumentPath(c, req_ids)
    /\ \/ \E answer \in Answers, gen \in GeneratedTitles, match \in Matches \ {"none"} :
            PersistSearchTurn(c, q, answer, <<"kb">>, "vector", 1, req_ids, gen, match)
       \/ NoMatches(c, q, req_ids)
       \/ Failed("search", c, q, "vector", 1, req_ids)
    /\ UNCHANGED <<clock, tz, procs>>

\* -------------------------------------------------------- turn: /upload/ask
RECURSIVE HistoryDocIds(_)
\* ask_question: document ids found in history entries, first-seen order
HistoryDocIds(entries) ==
    IF entries = <<>> THEN <<>>
    ELSE Dedup(HistoryDocIds(SubSeq(entries, 1, Len(entries) - 1))
               \o entries[Len(entries)].document_ids)

LastN(list, n) ==
    IF Len(list) <= n THEN list ELSE SubSeq(list, Len(list) - n + 1, Len(list))

MutResolveAskIdsMetaFirst(c, req_ids) ==
    IF meta[c].exists /\ meta[c].document_ids # <<>> THEN meta[c].document_ids
    ELSE IF req_ids # <<>> THEN req_ids
    ELSE HistoryDocIds(LastN(hist[c], 10))

\* ask_question: ids of the request, else meta's document_ids, else the ids
\* of the last 10 history entries
ResolveAskIds(c, req_ids) ==
    IF req_ids # <<>> THEN req_ids
    ELSE IF meta[c].exists /\ meta[c].document_ids # <<>> THEN meta[c].document_ids
    ELSE HistoryDocIds(LastN(hist[c], 10))

MutAskItemDiscardOnFallback(q, answer, ids, now) ==
    Turn(q, answer, now, <<>>, IF IsFallback(answer) THEN <<>> ELSE ids)

\* ask_question: the history item (it has no "tags" key)
AskItem(q, answer, ids, now) == Turn(q, answer, now, <<>>, ids)

\* ask_question: "if not q_text: raise HTTPException(400)"
QuestionRequired(c, q) ==
    /\ resp' = [RespFor("ask", c) EXCEPT !.status = "error", !.question = q,
                              !.detail = "Question text is required"]
    /\ UNCHANGED <<hist, meta, order, titleCalls, appended>>

\* ask_question: the bookkeeping block.  llen, rpush and the title step run;
\* update_chat_meta_on_message(..., document_ids=ids) then raises TypeError
\* (redis_service.update_chat_meta_on_message takes no document_ids), which
\* the enclosing "except Exception: pass" swallows, so neither the meta
\* record nor chat:order is written.
AskQuestion(c, q, req_ids) ==
    /\ c[1] = "documentqna" /\ Room(c)
    /\ LET ids == ResolveAskIds(c, req_ids)
           is_first == Len(hist[c]) = 0
       IN \/ /\ q = ""
             /\ QuestionRequired(c, q)
          \/ /\ q # ""
             /\ \E answer \in Answers :
                  /\ hist' = [hist EXCEPT ![c] = RPush(@, AskItem(q, answer, ids, clock))]
                  /\ appended' = [appended EXCEPT
                                    ![c] = Append(@, LogEntry(AskItem(q, answer, ids, clock)))]
                  /\ titleCalls' = [titleCalls EXCEPT ![c] = IF is_first THEN @ + 1 ELSE @]
                  /\ resp' = [RespFor("ask", c) EXCEPT !.status = "ok", !.question = q,
                                            !.answer = answer, !.path = "document",
                                            !.ids = ids, !.req = req_ids,
                                            !.titleGen = IF is_first THEN 1 ELSE 0]
                  /\ UNCHANGED <<meta, order>>
          \/ /\ q # ""
             /\ Failed("ask", c, q, "document", 0, ids)
    /\ UNCHANGED <<clock, tz, procs>>

\* upload_file: the document is stored in Mongo; the meta/order block raises
\* the same TypeError inside try/except, so the store is not written
UploadFile(chat_id, d) ==
    /\ resp' = [NoResp EXCEPT !.op = "upload", !.conv = <<"documentqna", chat_id>>,
                              !.status = "ok", !.ids = <<d>>]
    /\ UNCHANGED <<hist, meta, order, clock, tz, titleCalls, appended, procs>>

\* ------------------------------------------------ turns on a failing store
\* the Redis commands of the bookkeeping block of a turn, in program order;
\* a fault is one command raising redis.exceptions.RedisError
WriteSteps == {"llen", "rpush", "title_get", "meta_get", "meta_set", "zadd"}

\* search_question, lines 207-253, when the command named by step raises.
\* Only update_chat_order catches the error; any other command's error
\* leaves the handler, after the commands before it have taken effect.
SearchStoreFault(c, q, req_ids, step) ==
    LET is_first == Len(hist[c]) = 0
        doc == UsesDocumentPath(c, req_ids)
        item(answer) == Turn(q, answer, clock, <<>>, <<>>)
        pushed == step \notin {"llen", "rpush"}
        written == step = "zadd"
    IN /\ c[1] \in {"question", "insight"} /\ Room(c)
       /\ step \in WriteSteps
       /\ step = "title_get" => ~is_first
       /\ \E answer \in Answers, gen \in GeneratedTitles :
            LET h2 == [hist EXCEPT ![c] = RPush(@, item(answer))]
                title == ResolveTitle(h2, meta, c, is_first, gen)
                called == pushed /\ is_first
            IN /\ hist' = IF pushed THEN h2 ELSE hist
               /\ appended' = IF pushed
                              THEN [appended EXCEPT ![c] = Append(@, LogEntry(item(answer)))]
                              ELSE appended
               /\ titleCalls' = [titleCalls EXCEPT ![c] = IF called THEN @ + 1 ELSE @]
               /\ meta' = IF written
                          THEN [meta EXCEPT ![c] = UpdateChatMeta(@, title, clock)]
                          ELSE meta
               /\ resp' = [RespFor("search", c) EXCEPT
                             !.question = q,
                             !.status = IF written THEN "ok" ELSE "error",
                             !.detail = step,
                             !.answer = IF written THEN answer ELSE None,
                             !.title = IF written THEN title ELSE None,
                             !.tags = IF ~written THEN <<>>
                                      ELSE IF doc THEN DocTags(req_ids) ELSE <<"kb">>,
                             !.path = IF doc THEN "document" ELSE "vector",
                             !.vecCalls = IF doc THEN 0 ELSE 1,
                             !.ids = req_ids,
                             !.titleGen = IF called THEN 1 ELSE 0]
       /\ UNCHANGED <<order, clock, tz, procs>>

\* the commands ask_question reaches inside its bookkeeping try block before
\* update_chat_meta_on_message raises
AskWriteSteps == {"llen", "rpush", "title_get"}

\* ask_question, lines 283-312, when the command named by step raises: the
\* enclosing "except Exception: pass" ends the block and the answer is
\* returned
AskStoreFault(c, q, req_ids, step) ==
    LET ids == ResolveAskIds(c, req_ids)
        is_first == Len(hist[c]) = 0
        pushed == step = "title_get"
    IN /\ c[1] = "documentqna" /\ Room(c) /\ q # ""
       /\ step \in AskWriteSteps
       /\ step = "title_get" => ~is_first
       /\ \E answer \in Answers :
            /\ hist' = IF pushed
                       THEN [hist EXCEPT ![c] = RPush(@, AskItem(q, answer, ids, clock))]
                       ELSE hist
            /\ appended' = IF pushed
                           THEN [appended EXCEPT
                                   ![c] = Append(@, LogEntry(AskItem(q, answer, ids, clock)))]
                           ELSE appended
            /\ resp' = [RespFor("ask", c) EXCEPT !.status = "ok", !.detail = step,
                                      !.question = q,
                                      !.answer = answer, !.path = "document",
                                      !.ids = ids]
       /\ UNCHANGED <<meta, order, titleCalls, clock, tz, procs>>

\* ------------------------------------------------- redis_service operations
\* turns as the router passes them to push_history_item: tags and document
\* ids are discarded when the answer is a fallback
RouterTurnInputs ==
    {<<"A1", <<"a.pdf">>, <<"d1">>>>, <<"A1", <<>>, <<>>>>, <<NO_INDEXED, <<>>, <<>>>>}

\* push_history_item
PushHistoryItem(c, q, in) ==
    /\ Room(c)
    /\ hist' = [hist EXCEPT ![c] = RPush(@, Turn(q, in[1], clock, in[2], in[3]))]
    /\ appended' = [appended EXCEPT
                      ![c] = Append(@, LogEntry(Turn(q, in[1], clock, in[2], in[3])))]
    /\ resp' = [RespFor("push", c) EXCEPT !.status = "ok",
                              !.answer = in[1], !.tags = in[2], !.ids = in[3]]
    /\ UNCHANGED <<meta, order, clock, tz, titleCalls, procs>>

\* add_doc_ids_to_chat_meta
AddDocIdsToChatMeta(c, doc_ids) ==
    /\ Len(AddDocIds(meta[c], doc_ids).document_ids) <= MaxDocs
    /\ meta' = [meta EXCEPT ![c] = AddDocIds(@, doc_ids)]
    /\ resp' = [RespFor("add_doc_ids", c) EXCEPT !.status = "ok", !.ids = doc_ids,
                  !.repeat = (resp.op = "add_doc_ids" /\ resp.conv = c
                              /\ resp.ids = doc_ids)]
    /\ UNCHANGED <<hist, order, clock, tz, titleCalls, appended, procs>>

\* ------------------------------------------------------------ chats router
MutHistoryItemsNewestFirst(list) ==
    [i \in 1..Len(list) |->
        [question |-> list[Len(list) + 1 - i].question,
         answer |-> list[Len(list) + 1 - i].answer,
         ts |-> list[Len(list) + 1 - i].ts]]

\* get_history: HistoryItem(**data) of every entry of lrange(key, 0, -1)
HistoryItems(list) ==
    [i \in 1..Len(list) |->
        [question |-> list[i].question, answer |-> list[i].answer, ts |-> list[i].ts]]

\* get_history: the title returned (None when there is neither meta title
\* nor history)
HistoryTitle(m, list) ==
    IF m.exists /\ Truthy(m.title) THEN m.title
    ELSE IF Len(list) > 0 THEN DeriveTitle(list[1].question)
    ELSE None

MutBackfillAlways(m, chat_title, now) ==
    [exists |-> TRUE, created |-> now, last_activity |-> m.last_activity,
     title |-> IF Truthy(chat_title) THEN chat_title ELSE "Conversation",
     user_id |-> IF m.user_id = None THEN "admin" ELSE m.user_id,
     document_ids |-> m.document_ids]

\* get_history: the meta back-fill written when the meta key is missing
Backfill(m, chat_title, now) ==
    IF m.exists THEN m
    ELSE [exists |-> TRUE, created |-> now, last_activity |-> NoTs,
          title |-> IF Truthy(chat_title) THEN chat_title ELSE "Conversation",
          user_id |-> "admin", document_ids |-> <<>>]

GetHistory(c) ==
    /\ c[1] \in {"question", "insight"}
    /\ LET chat_title == HistoryTitle(meta[c], hist[c])
       IN /\ meta' = [meta EXCEPT ![c] = Backfill(@, chat_title, clock)]
          /\ resp' = [RespFor("history", c) EXCEPT !.status = "ok",
                                    !.title = chat_title,
                                    !.turns = HistoryItems(hist[c])]
    /\ UNCHANGED <<hist, order, clock, tz, titleCalls, appended, procs>>

MutDeleteKindsEveryKind(chat_type) == {"question", "insight"}

MutDeleteKindsQuestionFirst(chat_type) ==
    IF chat_type = None THEN {"question"} ELSE {chat_type}

\* delete_session (chats.py): chat_type is None, "question" or "insight"
DeleteKinds(chat_type) ==
    IF chat_type = None THEN {"question", "insight"} ELSE {chat_type}

DeleteSession(chat_id, chat_type) ==
    LET gone == {c \in Convs : c[2] = chat_id /\ c[1] \in DeleteKinds(chat_type)}
        deleted_lists == Cardinality({c \in gone : Len(hist[c]) > 0})
        deleted_meta == Cardinality({c \in gone : meta[c].exists})
    IN /\ hist' = [c \in Convs |-> IF c \in gone THEN <<>> ELSE hist[c]]
       /\ meta' = [c \in Convs |-> IF c \in gone THEN AbsentMeta ELSE meta[c]]
       /\ order' = [c \in Convs |-> IF c \in gone THEN NoScore ELSE order[c]]
       /\ titleCalls' = [c \in Convs |-> IF c \in gone THEN 0 ELSE titleCalls[c]]
       /\ appended' = [c \in Convs |-> IF c \in gone THEN <<>> ELSE appended[c]]
       /\ resp' = [NoResp EXCEPT !.op = "delete", !.conv = <<chat_type, chat_id>>,
                     !.status = IF deleted_lists + deleted_meta = 0
                                THEN "not_found" ELSE "ok",
                     !.deleted_lists = deleted_lists,
                     !.deleted_meta = deleted_meta]
       /\ UNCHANGED <<clock, tz, procs>>

\* redis_service.delete_session(chat_id, chat_type, delete_history,
\* delete_meta, remove_order)
ServiceDeleteSession(chat_id, chat_type, delete_history, delete_meta, remove_order) ==
    LET types == IF chat_type = None THEN SeqToSet(DEFAULT_CHAT_TYPES) ELSE {chat_type}
        hit == {c \in Convs : c[2] = chat_id /\ c[1] \in types}
        deleted_history == Cardinality({c \in hit : delete_history /\ Len(hist[c]) > 0})
        deleted_meta == Cardinality({c \in hit : delete_meta /\ meta[c].exists})
    IN /\ hist' = [c \in Convs |-> IF c \in hit /\ delete_history THEN <<>> ELSE hist[c]]
       /\ meta' = [c \in Convs |-> IF c \in hit /\ delete_meta THEN AbsentMeta ELSE meta[c]]
       /\ order' = [c \in Convs |-> IF c \in hit /\ remove_order THEN NoScore ELSE order[c]]
       /\ titleCalls' = [c \in Convs |->
                           IF c \in hit /\ delete_history THEN 0 ELSE titleCalls[c]]
       /\ appended' = [c \in Convs |->
                         IF c \in hit /\ delete_history THEN <<>> ELSE appended[c]]
       /\ resp' = [NoResp EXCEPT !.op = "service_delete", !.conv = <<chat_type, chat_id>>,
                     !.status = "ok",
                     !.full = (delete_history /\ delete_meta /\ remove_order),
                     !.deleted_lists = deleted_history,
                     !.deleted_meta = deleted_meta]
       /\ UNCHANGED <<clock, tz, procs>>

MutDeleteAllDefaultTypes ==
    LET hit == {c \in Convs : c[1] \in SeqToSet(DEFAULT_CHAT_TYPES)}
    IN /\ hist' = [c \in Convs |-> IF c \in hit THEN <<>> ELSE hist[c]]
       /\ meta' = [c \in Convs |-> IF c \in hit THEN AbsentMeta ELSE meta[c]]
       /\ order' = [c \in Convs |-> NoScore]
       /\ titleCalls' = [c \in Convs |-> IF c \in hit THEN 0 ELSE titleCalls[c]]
       /\ appended' = [c \in Convs |-> IF c \in hit THEN <<>> ELSE appended[c]]
       /\ resp' = [NoResp EXCEPT !.op = "delete_all", !.status = "ok",
                     !.deleted_lists = Cardinality({c \in hit : Len(hist[c]) > 0}),
                     !.deleted_meta = Cardinality({c \in hit : meta[c].exists})]
       /\ UNCHANGED <<clock, tz, procs>>

\* delete_all_sessions(): every chat:*:* and chatmeta:*:* key and chat:order
DeleteAllSessions ==
    /\ hist' = [c \in Convs |-> <<>>]
    /\ meta' = [c \in Convs |-> AbsentMeta]
    /\ order' = [c \in Convs |-> NoScore]
    /\ titleCalls' = [c \in Convs |-> 0]
    /\ appended' = [c \in Convs |-> <<>>]
    /\ resp' = [NoResp EXCEPT !.op = "delete_all", !.status = "ok",
                  !.deleted_lists = Cardinality({c \in Convs : Len(hist[c]) > 0}),
                  !.deleted_meta = Cardinality({c \in Convs : meta[c].exists})]
    /\ UNCHANGED <<clock, tz, procs>>

\* ---------------------------------------------------------------- listing
\* lexicographic rank of the member string "<type>:<id>"
MemberRank(c) ==
    (CASE c[1] = "documentqna" -> 0 [] c[1] = "insight" -> 1 [] OTHER -> 2) * 2
    + (IF c[2] = "c1" THEN 0 ELSE 1)

RECURSIVE MutSortOldestFirst(_, _)
MutSortOldestFirst(ord, S) ==
    IF S = {} THEN <<>>
    ELSE LET low == CHOOSE x \in S : \A y \in S :
                        \/ ord[x] < ord[y]
                        \/ ord[x] = ord[y] /\ MemberRank(x) <= MemberRank(y)
         IN <<low>> \o MutSortOldestFirst(ord, S \ {low})

RECURSIVE SortNewestFirst(_, _)
SortNewestFirst(ord, S) ==
    IF S = {} THEN <<>>
    ELSE LET top == CHOOSE x \in S : \A y \in S :
                        \/ ord[x] > ord[y]
                        \/ ord[x] = ord[y] /\ MemberRank(x) >= MemberRank(y)
         IN <<top>> \o SortNewestFirst(ord, S \ {top})

\* zrevrange(chat:order, 0, -1): members by descending score, equal scores by
\* descending member
ZRevRange(ord) == SortNewestFirst(ord, {c \in Convs : ord[c] # NoScore})

AllowedTypes(include_insight, include_question) ==
    (IF include_question THEN {"question"} ELSE {})
    \cup (IF include_insight THEN {"insight"} ELSE {})

\* list_chats: title of a summary
ListTitle(m, list) ==
    IF m.exists /\ Truthy(m.title) THEN m.title
    ELSE IF Len(list) > 0 /\ list[1].question # "" THEN DeriveTitle(list[1].question)
    ELSE "Conversation"

\* list_chats, third loop: the kind whose last answer fills item.last_answer
\* is chosen from the chat id alone, "question" first
LastAnswerFor(chat_id) ==
    IF meta[<<"question", chat_id>>].exists
    THEN get_last_answer(hist, <<"question", chat_id>>)
    ELSE IF meta[<<"insight", chat_id>>].exists
    THEN get_last_answer(hist, <<"insight", chat_id>>)
    ELSE None

ListItem(c) ==
    [kind |-> c[1], chat_id |-> c[2],
     title |-> ListTitle(meta[c], hist[c]),
     last_answer |-> LastAnswerFor(c[2]),
     timestamp |-> IF meta[c].exists /\ meta[c].last_activity # NoTs
                   THEN meta[c].last_activity ELSE order[c]]

MutListKeepsOrphans(members, allowed) ==
    SelectSeq(members, LAMBDA c : c[1] \in allowed)

\* list_chats, first loop: the members that are summarised
Listed(members, allowed) ==
    SelectSeq(members, LAMBDA c : c[1] \in allowed /\ ~is_orphan(hist, meta, c))

MutPruneNothing(members, allowed) == {}

\* list_chats, first loop: the members removed by remove_chat_order_member
Pruned(members, allowed) ==
    {c \in SeqToSet(members) : c[1] \in allowed /\ is_orphan(hist, meta, c)}

\* list_chats, migration loop: unlisted history keys of the allowed types
Migrated(seen, allowed) ==
    {c \in Convs : c[1] \in allowed /\ Len(hist[c]) > 0 /\ c \notin seen
                   /\ ~is_orphan(hist, meta, c)}

ListChats(include_insight, include_question) ==
    LET allowed == AllowedTypes(include_insight, include_question)
        members == ZRevRange(order)
        listed == Listed(members, allowed)
        pruned == Pruned(members, allowed)
        migrated == Migrated(SeqToSet(listed), allowed)
    IN /\ order' = [c \in Convs |->
                      IF c \in pruned THEN NoScore
                      ELSE IF c \in migrated
                      THEN StrpTimestamp(hist[c][Len(hist[c])].ts)
                      ELSE order[c]]
       /\ resp' = [NoResp EXCEPT !.op = "list", !.status = "ok",
                     !.items = [i \in 1..Len(listed) |-> ListItem(listed[i])],
                     !.allowed = allowed, !.pruned = pruned]
       /\ UNCHANGED <<hist, meta, clock, tz, titleCalls, appended, procs>>

\* ------------------------------------------------ reads on a failing store
\* the Redis read commands of the handlers; a fault is one of them raising
ReadSteps == {"context", "meta_ids", "history_ids", "lrange", "get", "zrevrange", "keys"}

\* search_question: build_chat_context (line 36) is called outside any try
\* block and its lrange is not guarded, so the error leaves the handler
SearchReadFault(c, q, req_ids) ==
    /\ c[1] \in {"question", "insight"}
    /\ resp' = [RespFor("search", c) EXCEPT !.status = "error", !.question = q,
                              !.detail = "context", !.ids = req_ids]
    /\ UNCHANGED <<hist, meta, order, clock, tz, titleCalls, appended, procs>>

\* ask_question: each of its three reads (meta ids, history ids, prior
\* context) sits in its own "except Exception: pass"; the turn goes on with
\* what the failed read would have contributed left out
AskReadFault(c, q, req_ids, step) ==
    LET ids == IF step = "meta_ids" THEN HistoryDocIds(LastN(hist[c], 10))
               ELSE IF step = "history_ids" THEN <<>>
               ELSE ResolveAskIds(c, req_ids)
        is_first == Len(hist[c]) = 0
    IN /\ c[1] = "documentqna" /\ Room(c) /\ q # ""
       /\ step \in {"meta_ids", "history_ids", "context"}
       /\ step = "meta_ids" => req_ids = <<>>
       /\ step = "history_ids"
            => req_ids = <<>> /\ ~(meta[c].exists /\ meta[c].document_ids # <<>>)
       /\ \E answer \in Answers :
            /\ hist' = [hist EXCEPT ![c] = RPush(@, AskItem(q, answer, ids, clock))]
            /\ appended' = [appended EXCEPT
                              ![c] = Append(@, LogEntry(AskItem(q, answer, ids, clock)))]
            /\ titleCalls' = [titleCalls EXCEPT ![c] = IF is_first THEN @ + 1 ELSE @]
            /\ resp' = [RespFor("ask", c) EXCEPT !.status = "ok", !.question = q,
                                      !.detail = step, !.answer = answer,
                                      !.path = "document", !.ids = ids,
                                      !.titleGen = IF is_first THEN 1 ELSE 0]
       /\ UNCHANGED <<meta, order, clock, tz, procs>>

\* get_history: lrange (line 29) and get (line 34) are not guarded
GetHistoryReadFault(c, step) ==
    /\ c[1] \in {"question", "insight"}
    /\ step \in {"lrange", "get"}
    /\ resp' = [RespFor("history", c) EXCEPT !.status = "error", !.detail = step]
    /\ UNCHANGED <<hist, meta, order, clock, tz, titleCalls, appended, procs>>

\* list_chats: a failing zrevrange is caught and read as no members, so the
\* migration loop re-scores every history key of an allowed type and the
\* result is empty; a failing keys() in the migration loop is not caught and
\* leaves the handler after the first loop has pruned
ListChatsReadFault(include_insight, include_question, step) ==
    LET allowed == AllowedTypes(include_insight, include_question)
        members == ZRevRange(order)
        pruned == Pruned(members, allowed)
        migrated == Migrated({}, allowed)
    IN /\ step \in {"zrevrange", "keys"}
       /\ order' = [c \in Convs |->
                      IF step = "zrevrange"
                      THEN IF c \in migrated
                           THEN StrpTimestamp(hist[c][Len(hist[c])].ts)
                           ELSE order[c]
                      ELSE IF c \in pruned THEN NoScore ELSE order[c]]
       /\ resp' = [NoResp EXCEPT !.op = "list", !.detail = step,
                     !.status = IF step = "zrevrange" THEN "ok" ELSE "error",
                     !.allowed = allowed,
                     !.pruned = IF step = "zrevrange" THEN {} ELSE pruned]
       /\ UNCHANGED <<hist, meta, clock, tz, titleCalls, appended, procs>>

\* ------------------------------------------------------------ specification
\* Spec: the life of one /search conversation, every handler run to completion
Conv1 == <<"question", "c1">>

Next ==
    \/ Tick
    \/ \E q \in Questions, ids \in DocLists : SearchDocument(Conv1, q, ids)
    \/ \E q \in Questions : SearchVector(Conv1, q, <<>>)
    \/ \E ids \in AddLists : AddDocIdsToChatMeta(Conv1, ids)
    \/ GetHistory(Conv1)
    \/ \E t \in {None, "question"} : DeleteSession("c1", t)
    \/ DeleteAllSessions

Spec == Init /\ [][Next]_vars

\* SpecAsk: the life of one /upload/ask conversation
ConvD == <<"documentqna", "c1">>

NextAsk ==
    \/ Tick
    \/ \E q \in Questions, ids \in DocLists : AskQuestion(ConvD, q, ids)
    \/ \E d \in DocIds : UploadFile("c1", d)
    \/ \E ids \in AddLists : AddDocIdsToChatMeta(ConvD, ids)
    \/ \E dm \in BOOLEAN, ro \in BOOLEAN :
          ServiceDeleteSession("c1", "documentqna", TRUE, dm, ro)
    \/ DeleteAllSessions

SpecAsk == Init /\ [][NextAsk]_vars

\* SpecList: listing over the conversations of one chat id under both kinds
ListConvs == {<<"question", "c1">>, <<"insight", "c1">>}

NextList ==
    \/ \E c \in ListConvs, q \in Questions : SearchVector(c, q, <<>>)
    \/ \E c \in ListConvs : GetHistory(c)
    \/ \E t \in {"question", "insight"}, dh \in BOOLEAN, dm \in BOOLEAN, ro \in BOOLEAN :
          ServiceDeleteSession("c1", t, dh, dm, ro)
    \/ \E ii \in BOOLEAN, iq \in BOOLEAN : ListChats(ii, iq)

SpecList == Init /\ [][NextList]_vars

\* SpecRace: two submissions of search_question on one conversation served by
\* separate workers over the shared store; a step is one store command or one
\* model call, and steps of different submissions interleave freely
ConvR == <<"question", "c1">>

InFlight(c) == {p \in Procs : procs[p].pc # "idle" /\ procs[p].conv = c}

\* search_question up to line 206: the answer is known, nothing is written
StartTurn(p, c, q) ==
    /\ procs[p].pc = "idle"
    /\ Len(hist[c])
         + Cardinality({r \in InFlight(c) : procs[r].pc \in {"llen", "rpush"}}) < MaxTurns
    /\ \E answer \in Answers :
          procs' = [procs EXCEPT ![p] = [IdleProc EXCEPT !.pc = "llen", !.conv = c,
                                            !.question = q, !.answer = answer]]
    /\ UNCHANGED <<hist, meta, order, clock, tz, titleCalls, appended, resp>>

\* is_first = redis_client.llen(list_key) == 0
LLen(p) ==
    /\ procs[p].pc = "llen"
    /\ procs' = [procs EXCEPT ![p].is_first = (Len(hist[procs[p].conv]) = 0),
                              ![p].pc = "rpush"]
    /\ UNCHANGED <<hist, meta, order, clock, tz, titleCalls, appended, resp>>

\* redis_client.rpush(list_key, ...)
RPushTurn(p) ==
    LET c == procs[p].conv
        item == Turn(procs[p].question, procs[p].answer, clock, <<>>, <<>>)
    IN /\ procs[p].pc = "rpush"
       /\ hist' = [hist EXCEPT ![c] = RPush(@, item)]
       /\ appended' = [appended EXCEPT ![c] = Append(@, LogEntry(item))]
       /\ procs' = [procs EXCEPT ![p].pc = "title"]
       /\ UNCHANGED <<meta, order, clock, tz, titleCalls, resp>>

\* if is_first: title = generate_chat_title(openai_client, request.question)
GenerateTitle(p) ==
    /\ procs[p].pc = "title" /\ procs[p].is_first
    /\ \E gen \in GeneratedTitles :
          procs' = [procs EXCEPT ![p].title = gen, ![p].pc = "meta_get"]
    /\ titleCalls' = [titleCalls EXCEPT ![procs[p].conv] = @ + 1]
    /\ UNCHANGED <<hist, meta, order, clock, tz, appended, resp>>

\* else: existing = redis_client.get(meta_key); title = em.get("title")
GetMetaTitle(p) ==
    LET m == meta[procs[p].conv]
        title == IF m.exists THEN m.title ELSE None
    IN /\ procs[p].pc = "title" /\ ~procs[p].is_first
       /\ procs' = [procs EXCEPT ![p].title = title,
                                 ![p].pc = IF Truthy(title) THEN "meta_get" ELSE "lindex"]
       /\ UNCHANGED <<hist, meta, order, clock, tz, titleCalls, appended, resp>>

\* if not title: first_raw = redis_client.lindex(list_key, 0)
LIndexTitle(p) ==
    LET list == hist[procs[p].conv]
    IN /\ procs[p].pc = "lindex"
       /\ procs' = [procs EXCEPT ![p].title = IF Len(list) > 0
                                              THEN DeriveTitle(list[1].question)
                                              ELSE "Conversation",
                                 ![p].pc = "meta_get"]
       /\ UNCHANGED <<hist, meta, order, clock, tz, titleCalls, appended, resp>>

\* update_chat_meta_on_message: raw = redis_client.get(key)
MetaGet(p) ==
    /\ procs[p].pc = "meta_get"
    /\ procs' = [procs EXCEPT ![p].m = meta[procs[p].conv], ![p].pc = "meta_set"]
    /\ UNCHANGED <<hist, meta, order, clock, tz, titleCalls, appended, resp>>

\* update_chat_meta_on_message: redis_client.set(key, json.dumps(meta))
MetaSet(p) ==
    /\ procs[p].pc = "meta_set"
    /\ meta' = [meta EXCEPT ![procs[p].conv] =
                   UpdateChatMeta(procs[p].m, procs[p].title, clock)]
    /\ procs' = [procs EXCEPT ![p].pc = "zadd"]
    /\ UNCHANGED <<hist, order, clock, tz, titleCalls, appended, resp>>

\* update_chat_order and the response
ZAddRespond(p) ==
    /\ procs[p].pc = "zadd"
    /\ order' = update_chat_order(order, procs[p].conv, clock)
    /\ resp' = [NoResp EXCEPT !.op = "search", !.conv = procs[p].conv,
                  !.status = "ok", !.title = procs[p].title,
                  !.answer = procs[p].answer, !.path = "vector", !.vecCalls = 1,
                  !.titleGen = IF procs[p].is_first THEN 1 ELSE 0]
    /\ procs' = [procs EXCEPT ![p] = IdleProc]
    /\ UNCHANGED <<hist, meta, clock, tz, titleCalls, appended>>

NextRace ==
    \/ \E p \in Procs, q \in Questions : StartTurn(p, ConvR, q)
    \/ \E p \in Procs : LLen(p)
    \/ \E p \in Procs : RPushTurn(p)
    \/ \E p \in Procs : GenerateTitle(p)
    \/ \E p \in Procs : GetMetaTitle(p)
    \/ \E p \in Procs : LIndexTitle(p)
    \/ \E p \in Procs : MetaGet(p)
    \/ \E p \in Procs : MetaSet(p)
    \/ \E p \in Procs : ZAddRespond(p)
    \/ DeleteSession("c1", "question")

SpecRace == Init /\ [][NextRace]_vars

\* SpecDelete: deletes of one chat id that holds conversations of every kind
NextDelete ==
    \/ \E c \in ListConvs, q \in Questions : SearchVector(c, q, <<>>)
    \/ \E q \in Questions, ids \in DocLists : AskQuestion(ConvD, q, ids)
    \/ \E t \in {"question", "insight"}, dh \in BOOLEAN, dm \in BOOLEAN, ro \in BOOLEAN :
          ServiceDeleteSession("c1", t, dh, dm, ro)
    \/ \E t \in {None, "question", "insight"} : DeleteSession("c1", t)
    \/ \E ii \in BOOLEAN, iq \in BOOLEAN : ListChats(ii, iq)

SpecDelete == Init /\ [][NextDelete]_vars

\* SpecPurge: conversations of one chat id under question and insight, and
\* the two deletes of a single conversation
NextPurge ==
    \/ \E c \in ListConvs, q \in Questions : SearchVector(c, q, <<>>)
    \/ \E t \in {None, "question", "insight"},
          dh \in BOOLEAN, dm \in BOOLEAN, ro \in BOOLEAN :
          ServiceDeleteSession("c1", t, dh, dm, ro)
    \/ \E t \in {None, "question", "insight"} : DeleteSession("c1", t)

SpecPurge == Init /\ [][NextPurge]_vars

\* SpecFault: turns and reads while single commands of the store fail
\* request.question: a question, or the empty string
AnyQuestion == Questions \cup {""}

NextFault ==
    \/ \E q \in AnyQuestion : SearchVector(Conv1, q, <<>>)
    \/ \E q \in Questions, ids \in DocLists, step \in WriteSteps :
          SearchStoreFault(Conv1, q, ids, step)
    \/ \E q \in AnyQuestion, ids \in DocLists : AskQuestion(ConvD, q, ids)
    \/ \E q \in Questions, ids \in DocLists, step \in AskWriteSteps :
          AskStoreFault(ConvD, q, ids, step)
    \/ \E q \in Questions, ids \in DocLists : SearchReadFault(Conv1, q, ids)
    \/ \E q \in Questions, ids \in DocLists, step \in ReadSteps :
          AskReadFault(ConvD, q, ids, step)
    \/ \E step \in ReadSteps : GetHistoryReadFault(Conv1, step)
    \/ \E ii \in BOOLEAN, iq \in BOOLEAN, step \in ReadSteps :
          ListChatsReadFault(ii, iq, step)

SpecFault == Init /\ [][NextFault]_vars

\* ------------------------------------------------------------------ claims
LastTurn(c) == hist[c][Len(hist[c])]

\* C1: once a conversation's meta record holds a created value, no metadata
\* write run to completion changes it; it keeps the value of the first write
\* for as long as the meta record exists.
C1_CreatedNeverChanges ==
    [][\A c \in Convs :
         (meta[c].exists /\ meta[c].created # NoTs /\ meta'[c].exists)
            => meta'[c].created = meta[c].created]_vars

\* a later metadata write at a later second kept the first created value
C1_Witness ==
    /\ meta[Conv1].exists
    /\ meta[Conv1].created = 0
    /\ meta[Conv1].last_activity = 1
    /\ meta[Conv1].document_ids # <<>>

\* C2: reading the history after n appends (no delete in between) returns
\* exactly the n appended turns, in the order they were appended.
C2_HistoryIsAppendLog ==
    (resp.op = "history" /\ resp.status = "ok") => resp.turns = appended[resp.conv]

C2_Witness ==
    /\ resp.op = "history"
    /\ Len(resp.turns) = 2
    /\ resp.turns[1].answer # resp.turns[2].answer

\* C4: a turn that starts while meta holds a non-empty bound document-id list
\* makes no call to the vector-search collaborator.
C4_NoVectorCallWhenBound ==
    (resp.op \in {"search", "ask"} /\ resp.bound # <<>>) => resp.vecCalls = 0

\* C6: add_doc_ids_to_chat_meta called a second time in a row with the same
\* list leaves meta's document_ids as the first call left it.
C6_AddDocIdsIdempotent ==
    (resp.op = "add_doc_ids" /\ resp.repeat)
        => meta[resp.conv].document_ids = resp.bound

C6_Witness ==
    /\ resp.op = "add_doc_ids"
    /\ resp.repeat
    /\ resp.ids = <<"d1", "d1">>
    /\ meta[resp.conv].document_ids = <<"d1", "d1">>

FirstVectorTurn ==
    /\ resp.op = "search" /\ resp.status = "ok"
    /\ resp.path = "vector" /\ resp.fresh

\* C7 as claimed: after the first successful vector-path turn on a brand-new
\* conversation there is one turn, one title-generator call, meta holds the
\* returned title and the recency index holds the conversation.
C7_FirstTurnAsClaimed ==
    FirstVectorTurn =>
        /\ Len(hist[resp.conv]) = 1
        /\ resp.titleGen = 1 /\ titleCalls[resp.conv] = 1
        /\ meta[resp.conv].exists /\ meta[resp.conv].title = resp.title
        /\ order[resp.conv] # NoScore

\* C7 amended: as claimed, except that meta holds "Conversation" when the
\* generator returned an empty title.
C7_FirstTurn ==
    FirstVectorTurn =>
        /\ Len(hist[resp.conv]) = 1
        /\ resp.titleGen = 1 /\ titleCalls[resp.conv] = 1
        /\ meta[resp.conv].exists
        /\ meta[resp.conv].title = (IF resp.title = "" THEN "Conversation" ELSE resp.title)
        /\ order[resp.conv] # NoScore

C7_Witness == FirstVectorTurn /\ resp.title = "T1" /\ meta[resp.conv].title = "T1"

\* C8: a turn on a conversation that has a turn and a stored title does not
\* call the title generator; the title returned and the title left in meta
\* equal the title stored before the turn.
C8_TitleReused ==
    (resp.op = "search" /\ resp.status = "ok" /\ resp.prevLen >= 1
     /\ Truthy(resp.prevTitle))
        => /\ resp.titleGen = 0
           /\ resp.title = resp.prevTitle
           /\ meta[resp.conv].title = resp.prevTitle

C8_Witness ==
    /\ resp.op = "search" /\ resp.status = "ok"
    /\ resp.prevLen = 1 /\ resp.prevTitle = "T1" /\ resp.title = "T1"
    /\ Len(hist[resp.conv]) = 2

\* C3: every persisted turn whose answer is a fallback carries an empty tags
\* list and an empty document-ids list.
C3_FallbackTurnsCarryNothing ==
    \A c \in Convs : \A i \in 1..Len(hist[c]) :
        IsFallback(hist[c][i].answer)
            => (hist[c][i].tags = <<>> /\ hist[c][i].document_ids = <<>>)

\* C10: a document Q&A turn on a conversation bound to one document, answered
\* from it, uses the document path, leaves the bound id in meta's
\* document_ids and gives the turn the document's display name as its tags.
C10_DocumentTurn ==
    (resp.op = "ask" /\ resp.status = "ok" /\ resp.bound = <<"d1">>
     /\ ~IsFallback(resp.answer))
        => /\ resp.path = "document"
           /\ "d1" \in SeqToSet(meta[resp.conv].document_ids)
           /\ LastTurn(resp.conv).tags = <<FileName("d1")>>

\* C5: a listing returns no (kind, id) pair that is an orphan, and when it
\* returns no member of an allowed kind that is an orphan is left in the
\* recency index.
C5_ListingPrunesOrphans ==
    resp.op = "list" =>
        /\ \A i \in 1..Len(resp.items) :
              ~is_orphan(hist, meta, <<resp.items[i].kind, resp.items[i].chat_id>>)
        /\ \A c \in Convs :
              (c[1] \in resp.allowed /\ order[c] # NoScore) => ~is_orphan(hist, meta, c)

\* a listing that met an orphan member and a live conversation
C5_Witness ==
    /\ resp.op = "list"
    /\ resp.pruned # {}
    /\ Len(resp.items) >= 1
    /\ \A c \in resp.pruned : order[c] = NoScore

\* C9: whatever the interleaving of the turn submissions on a conversation,
\* generate_chat_title has been called at most once since the conversation
\* was created.
C9_TitleGeneratedAtMostOnce ==
    \A c \in Convs : titleCalls[c] <= 1

\* C11: a vector turn whose search found no record above the similarity
\* threshold is answered, not refused: the response carries the canonical
\* no-indexed-documents text and no tags, and meta's document ids are
\* those held before the turn.
C11_NoMatchAnswersWithFallback ==
    (resp.op = "search" /\ resp.path = "vector" /\ resp.match \in {"none", "low"})
        => /\ resp.status = "ok"
           /\ resp.answer = NO_INDEXED
           /\ resp.tags = <<>>
           /\ meta[resp.conv].document_ids = resp.bound

\* the id of the last delete holds no history and no meta under any kind and
\* the delete removed nothing, i.e. the id had no data when the delete began
DeletedNothingOf(r) ==
    /\ r.op = "delete"
    /\ r.deleted_lists + r.deleted_meta = 0
    /\ \A k \in Kinds : is_orphan(hist, meta, <<k, r.conv[2]>>)

\* C12: a delete of an id without history and meta under every kind answers
\* not-found and leaves no recency member of the id, and a listing that
\* follows it does not return the id.
C12_DeleteOfNothing ==
    /\ [](DeletedNothingOf(resp)
            => /\ resp.status = "not_found"
               /\ \A k \in Kinds : order[<<k, resp.conv[2]>>] = NoScore)
    /\ [][(DeletedNothingOf(resp) /\ resp'.op = "list")
            => \A i \in 1..Len(resp'.items) : resp'.items[i].chat_id # resp.conv[2]]_vars

\* C13: after a delete without a kind no history and no meta of the id is
\* left under any kind (question, insight, documentqna), and the delete
\* answers not-found only when it found nothing under any of them.
C13_KindlessDeleteCoversEveryKind ==
    (resp.op = "delete" /\ resp.conv[1] = None)
        => /\ \A k \in Kinds : is_orphan(hist, meta, <<k, resp.conv[2]>>)
           /\ (resp.deleted_lists + resp.deleted_meta > 0 => resp.status = "ok")

\* the kinds a delete of kind k addresses: k, or question and insight when
\* no kind is given
KindsOf(k) == IF k = None THEN SeqToSet(DEFAULT_CHAT_TYPES) ELSE {k}

\* C14: when a delete of (k, id) has returned (the endpoint's, or the service
\* function's with all three steps enabled), the history key, the meta key
\* and the recency member of (k, id) are all gone; without a kind this holds
\* for question and insight.
C14_DeleteRemovesEverything ==
    (resp.op = "delete" \/ (resp.op = "service_delete" /\ resp.full))
        => \A k \in KindsOf(resp.conv[1]) :
              LET c == <<k, resp.conv[2]>>
              IN Len(hist[c]) = 0 /\ ~meta[c].exists /\ order[c] = NoScore

\* a delete that found history, meta and a recency member
C14_Witness ==
    /\ resp.op = "delete" \/ (resp.op = "service_delete" /\ resp.full)
    /\ resp.deleted_lists >= 1 /\ resp.deleted_meta >= 1

\* C15: a turn whose answer was computed and whose bookkeeping then met a
\* failing store command (history length read, append, meta read or write,
\* recency touch) still answers the caller with that answer.
C15_StoreFaultStillAnswers ==
    (resp.op \in {"search", "ask"} /\ resp.detail \in WriteSteps)
        => resp.status = "ok" /\ resp.answer \in Answers

\* the response r reports a turn whose answer could not be produced: the
\* embedding call, the knowledge-base or document lookup, or the completion
\* failed
UpstreamFailed(r) ==
    /\ r.op \in {"search", "ask"}
    /\ \/ r.status = "error" /\ r.detail = ""
       \/ r.match = "unavailable"

\* C16: a turn whose answer could not be produced ends in an error and leaves
\* history, meta and recency member as they were; a turn that succeeds
\* appends exactly one entry, which carries the answer returned.
C16_UpstreamFailureLeavesNoTrace ==
    [][/\ UpstreamFailed(resp')
            => /\ resp'.status = "error"
               /\ hist' = hist /\ meta' = meta /\ order' = order
       /\ (resp' # resp /\ resp'.op \in {"search", "ask"} /\ resp'.status = "ok")
            => /\ Len(hist'[resp'.conv]) = Len(hist[resp'.conv]) + 1
               /\ SubSeq(hist'[resp'.conv], 1, Len(hist[resp'.conv])) = hist[resp'.conv]
               /\ hist'[resp'.conv][Len(hist'[resp'.conv])].answer = resp'.answer]_vars

\* C17: a turn submitted with an empty question is refused before the
\* embedding/completion provider, the knowledge base or the document store is
\* called, and no stored turn has an empty question; on /search and on
\* /upload/ask alike.
C17_EmptyQuestionRejected ==
    /\ (resp.op \in {"search", "ask"} /\ resp.question = "")
          => /\ resp.status = "error"
             /\ resp.detail = "Question text is required"
             /\ resp.path = "" /\ resp.vecCalls = 0
    /\ \A c \in Convs : \A i \in 1..Len(hist[c]) : hist[c][i].question # ""

\* C18: an operation that met a failing read of history or meta (the chat
\* context of a turn, a history read, a listing) does not raise: it answers
\* as over an empty history and absent metadata.
C18_ReadFaultDegrades ==
    (resp.op \in {"search", "ask", "history", "list"} /\ resp.detail \in ReadSteps)
        => /\ resp.status = "ok"
           /\ resp.op = "history" => (resp.turns = <<>> /\ resp.title = None)
           /\ resp.op = "list" => resp.items = <<>>

\* a conversation of which only the meta record is left
MetaOnly(c) == Len(hist[c]) = 0 /\ meta[c].exists

\* C19: a conversation whose meta record survived while its history is gone
\* counts as an orphan, and a listing of its kind removes its recency member
\* and does not return it.
C19_MetaOnlyIsOrphan ==
    /\ \A c \in Convs : MetaOnly(c) => is_orphan(hist, meta, c)
    /\ resp.op = "list"
          => \A c \in Convs :
                (MetaOnly(c) /\ c[1] \in resp.allowed)
                   => /\ order[c] = NoScore
                      /\ \A i \in 1..Len(resp.items) :
                            <<resp.items[i].kind, resp.items[i].chat_id>> # c

\* C20: is_orphan(kind, id) is true exactly when neither the history key nor
\* the meta key of (kind, id) exists; one of the two keys alone makes it false.
C20_OrphanIffNeitherKey ==
    \A c \in Convs :
        /\ Len(hist[c]) > 0 => ~is_orphan(hist, meta, c)
        /\ meta[c].exists => ~is_orphan(hist, meta, c)
        /\ (Len(hist[c]) = 0 /\ ~meta[c].exists) => is_orphan(hist, meta, c)

\* one conversation with only its meta record, one with only its history
C20_Witness ==
    /\ \E c \in Convs : MetaOnly(c) /\ ~is_orphan(hist, meta, c)
    /\ \E c \in Convs : Len(hist[c]) > 0 /\ ~meta[c].exists /\ ~is_orphan(hist, meta, c)

\* ------------------------------------------------------- frame conditions
\* SpecFrame: turns and deletes on conversations that share a chat id under
\* different kinds, and on a second chat id
FrameConvs == {<<"question", "c1">>, <<"insight", "c1">>, <<"question", "c2">>}

NextFrame ==
    \/ \E c \in FrameConvs, q \in Questions : SearchVector(c, q, <<>>)
    \/ \E c \in FrameConvs, q \in Questions : SearchDocument(c, q, <<"d1">>)
    \/ \E q \in Questions, ids \in DocLists : AskQuestion(ConvD, q, ids)
    \/ \E i \in Ids, t \in {None, "question", "insight"} : DeleteSession(i, t)
    \/ DeleteAllSessions

SpecFrame == Init /\ [][NextFrame]_vars

\* the response r is that of a turn submission or of a delete of one kind
TurnOrKindDelete(r) ==
    \/ r.op \in {"search", "ask"}
    \/ r.op = "delete" /\ r.conv[1] # None

\* C21: a turn submission or a kind-specific delete on (kind, id) leaves the
\* history, the meta record and the recency score of every other (kind, id)
\* pair as they were, the same id under another kind and other ids included.
C21_OtherConversationsUntouched ==
    [][TurnOrKindDelete(resp')
         => \A c \in Convs \ {resp'.conv} :
               hist'[c] = hist[c] /\ meta'[c] = meta[c] /\ order'[c] = order[c]]_vars

\* a delete of (question, c1) that removed its keys while (insight, c1) holds
\* a history, a meta record and a recency member
C21_Witness ==
    /\ resp.op = "delete" /\ resp.conv = <<"question", "c1">>
    /\ resp.deleted_lists = 1 /\ resp.deleted_meta = 1
    /\ Len(hist[<<"insight", "c1">>]) = 1
    /\ meta[<<"insight", "c1">>].exists
    /\ order[<<"insight", "c1">>] # NoScore

\* C22: the metadata write of a turn leaves meta's document_ids exactly as
\* they were before the turn: no id removed, replaced or moved.
C22_MetaWriteKeepsDocIds ==
    (resp.op = "search" /\ resp.status = "ok")
        => /\ meta[resp.conv].exists
           /\ meta[resp.conv].last_activity = LastTurn(resp.conv).ts
           /\ meta[resp.conv].document_ids = resp.bound

\* a turn at second 1 on a conversation bound to d2 and d1, in that order
C22_Witness ==
    /\ resp.op = "search" /\ resp.status = "ok"
    /\ resp.bound = <<"d2", "d1">>
    /\ meta[resp.conv].last_activity = 1
    /\ meta[resp.conv].document_ids = <<"d2", "d1">>

\* SpecBind: /upload/ask turns on a conversation whose meta record is given
\* bound document ids
NextBind ==
    \/ \E q \in Questions, ids \in DocLists : AskQuestion(ConvD, q, ids)
    \/ \E ids \in AddLists : AddDocIdsToChatMeta(ConvD, ids)
    \/ \E dm \in BOOLEAN : ServiceDeleteSession("c1", "documentqna", TRUE, dm, TRUE)

SpecBind == Init /\ [][NextBind]_vars

InitAnyZone == InitStore /\ tz \in TzOffsets

NextMigrate ==
    \/ Tick
    \/ \E c \in ListConvs, q \in Questions : SearchVector(c, q, <<>>)
    \/ \E t \in {"question", "insight"} : ServiceDeleteSession("c1", t, FALSE, FALSE, TRUE)
    \/ \E ii \in BOOLEAN, iq \in BOOLEAN : ListChats(ii, iq)

SpecMigrate == InitAnyZone /\ [][NextMigrate]_vars

\* the conversation c of an allowed kind has a history key and no recency
\* member
Unindexed(c, allowed) ==
    c[1] \in allowed /\ Len(hist[c]) > 0 /\ order[c] = NoScore

\* C24: when a listing has completed, every conversation of an allowed kind
\* that had a history key and no recency member is a member, scored with the
\* timestamp of its last turn.
C24_ListingIndexesUnlistedHistories ==
    [][(resp'.op = "list" /\ resp'.status = "ok" /\ clock' = clock)
         => \A c \in Convs :
               Unindexed(c, resp'.allowed) => order'[c] = LastTurn(c).ts]_vars

\* the conversation of the i-th item of the last listing
ItemConv(i) == <<resp.items[i].kind, resp.items[i].chat_id>>

\* C25: the items of a listing are conversations of the allowed kinds in
\* non-increasing order of their recency score, no (kind, id) pair twice;
\* the score a turn leaves is the time of that turn, so the conversation
\* of the latest turn is ahead of those scored earlier.
C25_ListingNewestFirst ==
    /\ (resp.op = "list" /\ resp.status = "ok")
          => /\ \A i \in 1..Len(resp.items) : resp.items[i].kind \in resp.allowed
             /\ \A i, j \in 1..Len(resp.items) :
                   /\ i < j => order[ItemConv(i)] >= order[ItemConv(j)]
                   /\ i # j => ItemConv(i) # ItemConv(j)
    /\ (resp.op = "search" /\ resp.status = "ok")
          => order[resp.conv] = LastTurn(resp.conv).ts

\* a listing of two conversations in which insight:c1, scored at second 1,
\* comes before question:c1, scored at second 0
C25_Witness ==
    /\ resp.op = "list" /\ Len(resp.items) = 2
    /\ ItemConv(1) = <<"insight", "c1">>
    /\ ItemConv(2) = <<"question", "c1">>
    /\ order[ItemConv(1)] = 1 /\ order[ItemConv(2)] = 0

\* SpecRecent: turns on two conversations at different times, and listings
NextRecent ==
    \/ Tick
    \/ \E c \in ListConvs, q \in Questions : SearchVector(c, q, <<>>)
    \/ \E ii \in BOOLEAN, iq \in BOOLEAN : ListChats(ii, iq)

SpecRecent == Init /\ [][NextRecent]_vars

\* C26: when delete_all_sessions() has completed, no history key, no meta
\* key and no recency member is left under any kind, and the counts it
\* reports are the numbers of history keys and of meta keys that existed.
C26_DeleteAllLeavesNothing ==
    /\ [](resp.op = "delete_all"
            => \A c \in Convs :
                  Len(hist[c]) = 0 /\ ~meta[c].exists /\ order[c] = NoScore)
    /\ [][(resp'.op = "delete_all" /\ resp' # resp)
            => /\ resp'.deleted_lists = Cardinality({c \in Convs : Len(hist[c]) > 0})
               /\ resp'.deleted_meta = Cardinality({c \in Convs : meta[c].exists})]_vars

\* a bulk delete that removed the history of a documentqna conversation and
\* the history and meta of a /search conversation
C26_Witness ==
    /\ resp.op = "delete_all"
    /\ resp.deleted_lists = 2 /\ resp.deleted_meta = 1
    /\ \A c \in Convs : Len(hist[c]) = 0 /\ ~meta[c].exists

\* --------------------------------------------------------- append-only log
\* SpecAppend: everything that touches one conversation between its deletes:
\* turns, push_history_item, history reads, listings, metadata writes
NextAppend ==
    \/ Tick
    \/ \E q \in Questions : SearchVector(Conv1, q, <<>>)
    \/ \E q \in Questions, in \in RouterTurnInputs : PushHistoryItem(Conv1, q, in)
    \/ GetHistory(Conv1)
    \/ ListChats(TRUE, TRUE)
    \/ AddDocIdsToChatMeta(Conv1, <<"d1">>)
    \/ DeleteSession("c1", "question")

SpecAppend == Init /\ [][NextAppend]_vars

\* the operations that remove a history key
DeleteOps == {"delete", "service_delete", "delete_all"}

\* C27: no step other than a delete rewrites, reorders or removes a turn:
\* the history before the step is a prefix of the history after it.
C27_TurnsImmutable ==
    [][resp'.op \notin DeleteOps
         => \A c \in Convs :
               /\ Len(hist'[c]) >= Len(hist[c])
               /\ SubSeq(hist'[c], 1, Len(hist[c])) = hist[c]]_vars

\* a listing over a history of two different turns, the first of them
\* appended at second 0 and the second at second 1
C27_Witness ==
    /\ resp.op = "list"
    /\ Len(hist[Conv1]) = 2
    /\ hist[Conv1][1].ts = 0 /\ hist[Conv1][2].ts = 1
    /\ hist[Conv1][1].answer # hist[Conv1][2].answer
    /\ meta[Conv1].document_ids = <<"d1">>

BurstAnswer(p) == IF p = "p1" THEN "A1" ELSE CANNOT_ANSWER

InitBurst ==
    /\ hist = [c \in Convs |-> <<>>]
    /\ meta = [c \in Convs |-> AbsentMeta]
    /\ order = [c \in Convs |-> NoScore]
    /\ clock = 0
    /\ tz = 0
    /\ titleCalls = [c \in Convs |-> 0]
    /\ appended = [c \in Convs |-> <<>>]
    /\ resp = NoResp
    /\ procs = [p \in Procs |->
                  [IdleProc EXCEPT !.pc = "llen", !.conv = ConvR,
                                   !.question = "q1", !.answer = BurstAnswer(p)]]

NextBurst ==
    \/ \E p \in Procs : LLen(p)
    \/ \E p \in Procs : RPushTurn(p)
    \/ \E p \in Procs : GenerateTitle(p)
    \/ \E p \in Procs : GetMetaTitle(p)
    \/ \E p \in Procs : LIndexTitle(p)
    \/ \E p \in Procs : MetaGet(p)
    \/ \E p \in Procs : MetaSet(p)
    \/ \E p \in Procs : ZAddRespond(p)

SpecBurst == InitBurst /\ [][NextBurst]_vars

\* the submissions whose rpush has reached the store
Pushed == {p \in Procs : procs[p].pc \notin {"llen", "rpush"}}

\* C29: of k concurrent submissions on a conversation, each one whose append
\* has reached the store has exactly one turn in the history, and the turns
\* stand in the order in which the appends arrived; once all k have
\* completed the history holds exactly their k turns.
C29_ConcurrentTurnsAllAppended ==
    /\ Len(hist[ConvR]) = Cardinality(Pushed)
    /\ {hist[ConvR][i].answer : i \in 1..Len(hist[ConvR])}
          = {BurstAnswer(p) : p \in Pushed}
    /\ HistoryItems(hist[ConvR]) = appended[ConvR]
    /\ (\A p \in Procs : procs[p].pc = "idle") => Len(hist[ConvR]) = Cardinality(Procs)

\* both submissions completed, the append of p2 having arrived first
C29_Witness ==
    /\ \A p \in Procs : procs[p].pc = "idle"
    /\ Len(hist[ConvR]) = 2
    /\ hist[ConvR][1].answer = BurstAnswer("p2")
    /\ hist[ConvR][2].answer = BurstAnswer("p1")

\* C30: once a delete and the turns it interleaved with on the same
\* conversation have all completed, the conversation is fully present or
\* fully absent: there is no meta record and no recency member without a
\* history.
C30_DeleteDuringTurnLeavesNoRemnant ==
    (\A p \in Procs : procs[p].pc = "idle")
        => ((meta[ConvR].exists \/ order[ConvR] # NoScore) => Len(hist[ConvR]) > 0)

\* ------------------------------------------------ concurrent meta writers
\* add_doc_ids_to_chat_meta run command by command by a second worker: the
\* call is accepted, reads the meta record, and writes it back
StartAdd(p, c) ==
    /\ procs[p].pc = "idle"
    /\ procs' = [procs EXCEPT ![p] = [IdleProc EXCEPT !.pc = "add_get", !.conv = c]]
    /\ UNCHANGED <<hist, meta, order, clock, tz, titleCalls, appended, resp>>

\* add_doc_ids_to_chat_meta: existing_raw = redis_client.get(key)
AddGet(p) ==
    /\ procs[p].pc = "add_get"
    /\ procs' = [procs EXCEPT ![p].m = meta[procs[p].conv], ![p].pc = "add_set"]
    /\ UNCHANGED <<hist, meta, order, clock, tz, titleCalls, appended, resp>>

\* add_doc_ids_to_chat_meta: redis_client.set(key, json.dumps(meta)), skipped
\* when the record read holds every id of the list
AddSet(p, doc_ids) ==
    LET c == procs[p].conv
        written == AddDocIds(procs[p].m, doc_ids)
    IN /\ procs[p].pc = "add_set"
       /\ meta' = IF written = procs[p].m THEN meta ELSE [meta EXCEPT ![c] = written]
       /\ resp' = [NoResp EXCEPT !.op = "add_doc_ids", !.conv = c, !.status = "ok",
                                 !.ids = doc_ids]
       /\ procs' = [procs EXCEPT ![p] = [IdleProc EXCEPT !.pc = "add_done"]]
       /\ UNCHANGED <<hist, order, clock, tz, titleCalls, appended>>

\* SpecMetaRace: the turns of worker p1 and one document-id addition of
\* worker p2 on one conversation, interleaved command by command
NextMetaRace ==
    \/ \E q \in Questions : StartTurn("p1", ConvR, q)
    \/ LLen("p1")
    \/ RPushTurn("p1")
    \/ GenerateTitle("p1")
    \/ GetMetaTitle("p1")
    \/ LIndexTitle("p1")
    \/ MetaGet("p1")
    \/ MetaSet("p1")
    \/ ZAddRespond("p1")
    \/ StartAdd("p2", ConvR)
    \/ AddGet("p2")
    \/ AddSet("p2", <<"d1">>)

SpecMetaRace == Init /\ [][NextMetaRace]_vars

\* C31: once a turn's metadata write and a document-id addition on the same
\* conversation have both completed, in whatever order their commands ran,
\* meta holds the id added and the title and last_activity the turn wrote.
C31_NoLostMetaUpdate ==
    (/\ procs["p2"].pc = "add_done"
     /\ procs["p1"].pc = "idle"
     /\ Len(hist[ConvR]) > 0)
        => /\ "d1" \in SeqToSet(meta[ConvR].document_ids)
           /\ Truthy(meta[ConvR].title)
           /\ meta[ConvR].last_activity = LastTurn(ConvR).ts

\* -------------------------------------------------- creation of conversations
\* C32: a history read of a conversation without history and meta leaves it
\* without a meta key and an orphan, and a delete that follows answers
\* not-found; a conversation comes into being by a turn submission only.
C32_HistoryReadCreatesNothing ==
    /\ []((resp.op = "history" /\ resp.fresh)
             => (~meta[resp.conv].exists /\ is_orphan(hist, meta, resp.conv)))
    /\ [][(resp.op = "history" /\ resp.fresh
           /\ resp'.op = "delete" /\ resp'.conv[2] = resp.conv[2])
            => resp'.status = "not_found"]_vars
    /\ [][\A c \in Convs :
            (is_orphan(hist, meta, c) /\ ~is_orphan(hist', meta', c))
               => (resp'.op \in {"search", "ask"} /\ resp'.conv = c)]_vars

\* ------------------------------------------- listing beside a turn in flight
\* list_chats run by a second worker in two steps: zrevrange and the first
\* loop (summaries, orphan removal, the set seen), then the migration loop
\* and the last-answer loop
ListScan(p, include_insight, include_question) ==
    LET allowed == AllowedTypes(include_insight, include_question)
        members == ZRevRange(order)
        listed == Listed(members, allowed)
        pruned == Pruned(members, allowed)
    IN /\ procs[p].pc = "idle"
       /\ order' = [c \in Convs |-> IF c \in pruned THEN NoScore ELSE order[c]]
       /\ procs' = [procs EXCEPT ![p] =
                      [IdleProc EXCEPT !.pc = "migrate",
                                       !.seen = SeqToSet(listed),
                                       !.items = [i \in 1..Len(listed) |-> ListItem(listed[i])]]]
       /\ UNCHANGED <<hist, meta, clock, tz, titleCalls, appended, resp>>

ListMigrate(p, include_insight, include_question) ==
    LET allowed == AllowedTypes(include_insight, include_question)
        migrated == Migrated(procs[p].seen, allowed)
    IN /\ procs[p].pc = "migrate"
       /\ order' = [c \in Convs |->
                      IF c \in migrated
                      THEN StrpTimestamp(hist[c][Len(hist[c])].ts)
                      ELSE order[c]]
       /\ resp' = [NoResp EXCEPT !.op = "list", !.status = "ok", !.allowed = allowed,
                     !.items = [i \in 1..Len(procs[p].items) |->
                                  [procs[p].items[i] EXCEPT
                                     !.last_answer = LastAnswerFor(procs[p].items[i].chat_id)]]]
       /\ procs' = [procs EXCEPT ![p] = IdleProc]
       /\ UNCHANGED <<hist, meta, clock, tz, titleCalls, appended>>

\* SpecListRace: the turns of worker p1 and the listings of worker p2 over
\* the shared store, on a server whose local time is UTC
NextListRace ==
    \/ Tick
    \/ \E q \in Questions : StartTurn("p1", ConvR, q)
    \/ LLen("p1")
    \/ RPushTurn("p1")
    \/ GenerateTitle("p1")
    \/ GetMetaTitle("p1")
    \/ MetaGet("p1")
    \/ MetaSet("p1")
    \/ ZAddRespond("p1")
    \/ ListScan("p2", TRUE, TRUE)
    \/ ListMigrate("p2", TRUE, TRUE)

SpecListRace == Init /\ [][NextListRace]_vars

\* C33: the score of a conversation never decreases while the conversation
\* stays in the recency index, whatever turn or listing step writes it.
C33_ScoreNeverDecreases ==
    [][\A c \in Convs :
         (order[c] # NoScore /\ order'[c] # NoScore) => order'[c] >= order[c]]_vars

\* C34: a listing returns every conversation of an allowed kind that has a
\* turn in its history, members of the recency index or not.
C34_ListingReturnsEveryHistory ==
    (resp.op = "list" /\ resp.status = "ok")
        => \A c \in Convs :
              (c[1] \in resp.allowed /\ Len(hist[c]) > 0)
                 => \E i \in 1..Len(resp.items) : ItemConv(i) = c

\* C35: the last-answer preview of every summary of a listing is the answer
\* of the last turn of the conversation the summary stands for, and it is
\* there whenever that conversation has a turn.
C35_PreviewIsOwnLastAnswer ==
    (resp.op = "list" /\ resp.status = "ok")
        => \A i \in 1..Len(resp.items) :
              Len(hist[ItemConv(i)]) > 0
                 => resp.items[i].last_answer = LastTurn(ItemConv(i)).answer

\* C36: after a successful upload for a conversation the meta record of its
\* documentqna conversation exists and holds the uploaded document's id, and
\* the conversation is a member of the recency index; after a successful
\* /upload/ask turn meta's last_activity and the recency score are those of
\* the turn.
C36_UploadAndAskKeepBookkeeping ==
    /\ (resp.op = "upload" /\ resp.status = "ok")
          => /\ meta[resp.conv].exists
             /\ SeqToSet(resp.ids) \subseteq SeqToSet(meta[resp.conv].document_ids)
             /\ order[resp.conv] # NoScore
    /\ (resp.op = "ask" /\ resp.status = "ok")
          => /\ meta[resp.conv].exists
             /\ meta[resp.conv].last_activity = LastTurn(resp.conv).ts
             /\ order[resp.conv] = LastTurn(resp.conv).ts

\* ------------------------------------------------- previous-conversation text
\* A text is a sequence of characters.  "U" and "A" stand for the line
\* prefixes "User:" and "Assistant:", NL for the newline, and a digit for a
\* character of the question or answer of the turn with that number.
NL == "\n"
UserPrefix == "U"
AssistantPrefix == "A"

\* search_service.py:23-24
CHAT_CONTEXT_MAX_TURNS == 3
CHAT_CONTEXT_MAX_CHARS == 3000
\* _limit_chat_context: "if 0 < nl < 120"
NlScanLimit == 120

\* sizes of the texts and budgets the operators are applied to
MaxCtxTurns == 4
MaxBudget == 6

Digit(i) == CASE i = 1 -> "1" [] i = 2 -> "2" [] i = 3 -> "3" [] i = 4 -> "4" [] OTHER -> "5"

Repeat(ch, n) == [k \in 1..n |-> ch]

\* str.find: index from 0 of the first occurrence, -1 when there is none
RECURSIVE Find(_, _)
Find(s, ch) ==
    IF s = <<>> THEN -1
    ELSE IF Head(s) = ch THEN 0
    ELSE LET r == Find(Tail(s), ch) IN IF r = -1 THEN -1 ELSE r + 1

\* str.splitlines
RECURSIVE SplitLines(_)
SplitLines(s) ==
    IF s = <<>> THEN <<>>
    ELSE LET nl == Find(s, NL)
         IN IF nl = -1 THEN <<s>>
            ELSE <<SubSeq(s, 1, nl)>> \o SplitLines(SubSeq(s, nl + 2, Len(s)))

\* "\n".join
RECURSIVE JoinLines(_)
JoinLines(lines) ==
    IF lines = <<>> THEN <<>>
    ELSE IF Len(lines) = 1 THEN lines[1]
    ELSE lines[1] \o <<NL>> \o JoinLines(Tail(lines))

\* str.strip over the whitespace of the alphabet
RECURSIVE Strip(_)
Strip(s) ==
    IF s = <<>> THEN s
    ELSE IF Head(s) = NL THEN Strip(Tail(s))
    ELSE IF s[Len(s)] = NL THEN Strip(SubSeq(s, 1, Len(s) - 1))
    ELSE s

\* seq[-k:] of Python: the last k elements, and the whole sequence for k = 0
PySuffix(s, k) == IF k = 0 THEN s ELSE LastN(s, k)

\* _limit_chat_context, the loop over lines: a block starts at every line
\* that starts with "User:"
RECURSIVE BlocksFrom(_, _, _)
BlocksFrom(lines, current, blocks) ==
    IF lines = <<>>
    THEN IF current # <<>> THEN Append(blocks, JoinLines(current)) ELSE blocks
    ELSE LET line == Head(lines)
             flush == line # <<>> /\ line[1] = UserPrefix /\ current # <<>>
         IN BlocksFrom(Tail(lines),
                       Append(IF flush THEN <<>> ELSE current, line),
                       IF flush THEN Append(blocks, JoinLines(current)) ELSE blocks)

Blocks(chat_context) == BlocksFrom(SplitLines(chat_context), <<>>, <<>>)

\* _limit_chat_context(chat_context, max_turns, max_chars)
LimitChatContext(chat_context, max_turns, max_chars) ==
    IF chat_context = <<>> THEN <<>>
    ELSE LET recent == PySuffix(Blocks(chat_context), max_turns)
             limited == Strip(JoinLines(recent))
         IN IF Len(limited) > max_chars
            THEN LET cut == PySuffix(limited, max_chars)
                     nl == Find(cut, NL)
                 IN IF 0 < nl /\ nl < NlScanLimit
                    THEN SubSeq(cut, nl + 2, Len(cut))
                    ELSE cut
            ELSE limited

\* build_chat_context: f"User: {q}\nAssistant: {a}" of every entry, joined
\* by newlines; entry i has a question of one character and an answer of
\* alen[i] characters
ContextBlock(i, alen) ==
    <<UserPrefix, Digit(i), NL, AssistantPrefix>> \o Repeat(Digit(i), alen)

BuildChatContext(alens) ==
    JoinLines([i \in 1..Len(alens) |-> ContextBlock(i, alens[i])])

\* the answer lengths of the stored histories the operators are applied to
AnswerLens == {1, 3}
Histories == UNION {[1..n -> AnswerLens] : n \in 0..MaxCtxTurns}

\* vector_search: the marker added to a context that was trimmed
TruncationMarker == <<NL, "[... truncated ...]">>

\* s ends with t
EndsWith(s, t) == Len(s) >= Len(t) /\ SubSeq(s, Len(s) - Len(t) + 1, Len(s)) = t

\* _limit_chat_context applied to the context of a stored history
ApplyLimit(alens, max_turns, max_chars) ==
    /\ resp' = [NoResp EXCEPT !.op = "limit", !.status = "ok",
                              !.context = BuildChatContext(alens),
                              !.limit = <<max_turns, max_chars>>,
                              !.prompt = LimitChatContext(BuildChatContext(alens),
                                                          max_turns, max_chars)]
    /\ UNCHANGED <<hist, meta, order, clock, tz, titleCalls, appended, procs>>

\* C38: the text _limit_chat_context returns is the tail of its input, of at
\* most max_turns turns and max_chars characters; it starts at the first line
\* of a turn unless the most recent turn alone exceeds max_chars, and then it
\* ends with a truncation marker.
C38_LimitDropsWholeTurns ==
    resp.op = "limit" =>
        LET blocks == Blocks(resp.context)
            out == resp.prompt
            max_turns == resp.limit[1]
            max_chars == resp.limit[2]
        IN /\ EndsWith(resp.context, out) \/ EndsWith(out, TruncationMarker)
           /\ Len(Blocks(out)) <= max_turns
           /\ Len(out) <= max_chars
           /\ blocks # <<>> =>
                IF Len(blocks[Len(blocks)]) > max_chars
                THEN EndsWith(out, TruncationMarker)
                ELSE out # <<>> /\ out[1] = UserPrefix

\* the functions that place the previous conversation in a model prompt:
\* the two flows of search_question (search_api.py) and the two search
\* functions of search_service.py
PromptPaths ==
    {"search_question.document", "search_question.vector",
     "document_search", "vector_search"}

\* the previous-conversation text of the prompt.  document_search inserts
\* the limited context; vector_search computes it but formats the prompt
\* with {chat_context}; search_question inserts what build_chat_context
\* returned
PromptContext(path, chat_context) ==
    IF path = "document_search"
    THEN LimitChatContext(chat_context, CHAT_CONTEXT_MAX_TURNS, CHAT_CONTEXT_MAX_CHARS)
    ELSE chat_context

BuildPrompt(path, alens) ==
    /\ resp' = [NoResp EXCEPT !.op = "prompt", !.status = "ok", !.path = path,
                              !.context = BuildChatContext(alens),
                              !.limit = <<CHAT_CONTEXT_MAX_TURNS, CHAT_CONTEXT_MAX_CHARS>>,
                              !.prompt = PromptContext(path, BuildChatContext(alens))]
    /\ UNCHANGED <<hist, meta, order, clock, tz, titleCalls, appended, procs>>

\* C37: the previous conversation in the prompt of a turn, on the document
\* path and on the vector path, holds at most CHAT_CONTEXT_MAX_TURNS turns
\* and at most CHAT_CONTEXT_MAX_CHARS characters.
C37_PromptContextIsLimited ==
    resp.op = "prompt" =>
        /\ Len(Blocks(resp.prompt)) <= CHAT_CONTEXT_MAX_TURNS
        /\ Len(resp.prompt) <= CHAT_CONTEXT_MAX_CHARS

\* SpecContext: the context operators applied to the contexts of stored
\* histories of up to MaxCtxTurns turns
NextContext ==
    \/ \E alens \in Histories, max_turns \in 1..CHAT_CONTEXT_MAX_TURNS, max_chars \in 1..MaxBudget :
          ApplyLimit(alens, max_turns, max_chars)
    \/ \E path \in PromptPaths, alens \in Histories : BuildPrompt(path, alens)

SpecContext == Init /\ [][NextContext]_vars

\* ------------------------------------------------------- title characters
\* openai_service.py:46: "if len(title) > 60"
TitleMax == 60
\* openai_service.py:47: "title[:57]"
TitleKeep == 57
Ellipsis == <<".", ".", ".">>
ConversationText == <<"C", "o", "n", "v", "e", "r", "s", "a", "t", "i", "o", "n">>

\* str.strip(): leading and trailing whitespace removed
RECURSIVE StripWs(_)
StripWs(s) ==
    IF s = <<>> THEN s
    ELSE IF Head(s) \in {" ", NL} THEN StripWs(Tail(s))
    ELSE IF s[Len(s)] \in {" ", NL} THEN StripWs(SubSeq(s, 1, Len(s) - 1))
    ELSE s

\* str.rstrip(): trailing whitespace removed
RECURSIVE RStrip(_)
RStrip(s) ==
    IF s = <<>> THEN s
    ELSE IF s[Len(s)] \in {" ", NL} THEN RStrip(SubSeq(s, 1, Len(s) - 1))
    ELSE s

\* str.strip(ch): leading and trailing occurrences of one character removed
RECURSIVE StripChar(_, _)
StripChar(s, ch) ==
    IF s = <<>> THEN s
    ELSE IF Head(s) = ch THEN StripChar(Tail(s), ch)
    ELSE IF s[Len(s)] = ch THEN StripChar(SubSeq(s, 1, Len(s) - 1), ch)
    ELSE s

\* re.sub(r"\s+", " ", title): every run of whitespace becomes one space
RECURSIVE CollapseWs(_)
CollapseWs(s) ==
    IF s = <<>> THEN s
    ELSE IF Head(s) \in {" ", NL}
         THEN IF Len(s) > 1 /\ s[2] \in {" ", NL}
              THEN CollapseWs(Tail(s))
              ELSE <<" ">> \o CollapseWs(Tail(s))
         ELSE <<Head(s)>> \o CollapseWs(Tail(s))

\* generate_chat_title, from the completion's text to the returned title
GenerateChatTitle(content) ==
    LET stripped == StripWs(content)
        unquoted == StripChar(StripChar(stripped, "\""), "'")
        title == CollapseWs(unquoted)
    IN IF Len(title) > TitleMax
       THEN RStrip(SubSeq(title, 1, TitleKeep)) \o Ellipsis
       ELSE title

\* (q[:60] + "...") if len(q) > 60 else q or "Conversation", on characters
DeriveTitleText(q) ==
    IF Len(q) > 60 THEN SubSeq(q, 1, 60) \o Ellipsis
    ELSE IF q = <<>> THEN ConversationText ELSE q

\* the characters of a question of the model
QuestionText(q) ==
    IF q = LongQuestion THEN Repeat("q", StrLen(LongQuestion))
    ELSE IF q = "" THEN <<>>
    ELSE <<"q", "1">>

\* the characters of a title value of the model
TitleText(t) ==
    IF t = None \/ t = "" THEN <<>>
    ELSE IF t = "Conversation" THEN ConversationText
    ELSE IF t = Truncated(LongQuestion) THEN DeriveTitleText(QuestionText(LongQuestion))
    ELSE IF t = "T1" THEN <<"T", "1">>
    ELSE QuestionText(t)

\* completion texts handed to generate_chat_title: n title characters, bare,
\* in quotes, or with a run of spaces
MaxRawLen == 62
RawTitles ==
    LET lens == {0, 1, TitleKeep, TitleMax, TitleMax + 1, MaxRawLen}
    IN {Repeat("t", n) : n \in lens}
         \cup {<<"\"">> \o Repeat("t", n) \o <<"\"">> : n \in lens}
         \cup {Repeat("t", TitleKeep - 1) \o <<" ", " ">> \o Repeat("t", n) : n \in {1, 3, 5}}

GenerateChatTitleOf(content) ==
    /\ resp' = [NoResp EXCEPT !.op = "generate_chat_title", !.status = "ok",
                              !.context = content,
                              !.prompt = GenerateChatTitle(content)]
    /\ UNCHANGED <<hist, meta, order, clock, tz, titleCalls, appended, procs>>

\* SpecTitle: one worker's turns on one conversation, step by step, with
\* history reads and deletes of the conversation between the steps, and the
\* title generator applied to completion texts
NextTitle ==
    \/ \E q \in Questions \cup {LongQuestion} : StartTurn("p1", ConvR, q)
    \/ LLen("p1")
    \/ RPushTurn("p1")
    \/ GenerateTitle("p1")
    \/ GetMetaTitle("p1")
    \/ LIndexTitle("p1")
    \/ MetaGet("p1")
    \/ MetaSet("p1")
    \/ ZAddRespond("p1")
    \/ GetHistory(ConvR)
    \/ DeleteSession("c1", "question")
    \/ \E content \in RawTitles : GenerateChatTitleOf(content)

SpecTitle == Init /\ [][NextTitle]_vars

\* C39: a title returned by generate_chat_title, a title a turn or a history
\* read returns, and a title stored in meta each have at most 60 characters.
C39_TitlesAtMostSixty ==
    /\ resp.op = "generate_chat_title" => Len(resp.prompt) <= TitleMax
    /\ (resp.op \in {"search", "history"} /\ resp.status = "ok")
          => Len(TitleText(resp.title)) <= TitleMax
    /\ \A c \in Convs : meta[c].exists => Len(TitleText(meta[c].title)) <= TitleMax

====
